---- MODULE Spec2Model ----
(***************************************************************************)
(* Model of the speed-test server (src/server.js).                         *)
(*                                                                         *)
(* The streaming handler GET /api/speedtest (server.js 262-391) is an      *)
(* async function whose body runs synchronously up to `await axios(...)`   *)
(* and whose remaining behaviour is a set of callbacks: the progress       *)
(* callback, the 'end' and 'error' listeners of the response stream, the   *)
(* catch block of the rejected await and the 'close' listener of the       *)
(* incoming request.  Each callback is one action.  The download itself    *)
(* (axios and the response stream) is the environment: it resolves or      *)
(* rejects the request, delivers chunks with a cumulative byte count and   *)
(* ends the stream with exactly one of 'end' or 'error' (the Readable      *)
(* contract of Node.js); progress callbacks run while the stream flows,    *)
(* none after 'end' or 'error'.  The handler itself keeps no flag that     *)
(* would enforce this order.                                               *)
(*                                                                         *)
(* trace[s] is the history of the calls the handler made on its response   *)
(* object and on the download, in program order.                           *)
(***************************************************************************)
EXTENDS Integers, Sequences, FiniteSets, TLC

\* ---------------------------------------------------------------- bounds
MaxTime     == 2       \* clock ticks the model lets pass
TickMs      == 500     \* milliseconds per clock tick
ChunkUnit   == 65536   \* bytes per unit of transferred data
MaxChunk    == 2       \* largest chunk, in units
MaxLoaded   == 3       \* most data one download delivers, in units
MaxDeclared == 2       \* largest declared content length, in units

Sessions == {1, 2}     \* request/response pairs the server can hold
Solo     == {1}        \* the sessions that Spec drives

\* ------------------------------------------------------------------ state
VARIABLES
  now,              \* Date.now(), in ms since the server started
  pc,               \* position of each handler invocation
  fileSize,         \* const { fileSize } = req.query
  closeListener,    \* req.on('close') has been registered
  reqClosed,        \* the request's 'close' event has fired
  testFile,         \* const testFile
  startTime,        \* const startTime
  downloadedBytes,  \* let downloadedBytes
  totalBytes,       \* let totalBytes
  download,         \* the axios request and its response stream
  listeners,        \* listeners registered on response.data
  agentCount,       \* number of https.Agent objects created so far
  unhandled,        \* an 'error' event was emitted with no listener
  trace,            \* calls made by the handler, in program order
  testFiles,        \* the object bound to `const TEST_FILES`
  hops,             \* redirects the transport has followed for the request
  sessionId,        \* const { sessionId } = req.body (session-keyed server)
  connections,      \* const connections = new Map() (session-keyed server)
  channels          \* the responses of GET /api/progress/:sessionId

vars == <<now, pc, fileSize, closeListener, reqClosed, testFile, startTime,
          downloadedBytes, totalBytes, download, listeners, agentCount,
          unhandled, trace, testFiles, hops, sessionId, connections, channels>>

\* ------------------------------------------------------- JavaScript values
Undefined == "undefined"

Falsy(v) == v \in {Undefined, ""}

\* ------------------------------------------------------------- TEST_FILES
\* The object literal evaluated at start-up, with the default URLs.
TEST_FILES ==
  [ small  |-> [url |-> "https://ipv4.download.thinkbroadband.com/10MB.zip",
                size |-> "10MB",  description |-> "Small file (10MB)"],
    medium |-> [url |-> "https://ipv4.download.thinkbroadband.com/100MB.zip",
                size |-> "100MB", description |-> "Medium file (100MB)"],
    large  |-> [url |-> "https://ipv4.download.thinkbroadband.com/1GB.zip",
                size |-> "1GB",   description |-> "Large file (1GB)"] ]

\* Names every object literal inherits from Object.prototype.
ProtoKeys == {"constructor", "__proto__", "toString", "valueOf", "hasOwnProperty"}

\* An inherited member (a function or the prototype object): truthy, and
\* its .url, .size and .description are undefined.
Inherited == [url |-> Undefined, size |-> Undefined, description |-> Undefined]

\* TEST_FILES[fileSize] is not undefined: the property read finds an own or
\* an inherited member.
HasMember(key) == key \in (DOMAIN testFiles) \cup ProtoKeys

\* TEST_FILES[fileSize]: a property read on an object literal.
Lookup(key) ==
  IF key \in DOMAIN testFiles THEN testFiles[key] ELSE Inherited

\* `!fileSize || !TEST_FILES[fileSize]`
InvalidFileSize(key) ==
  Falsy(key) \/ ~HasMember(key)

\* Values of req.query.fileSize the model sends.
Selectors == {"small", "medium", "large", "huge", "constructor", "", Undefined}

\* --------------------------------------------------------------- numbers
\* Math.round(x) for x = num/den >= 0: the nearest integer, halves up.
MathRound(num, den) ==
  (num \div den) + (IF num % den >= den - (num % den) THEN 1 ELSE 0)

\* Euclid's algorithm on a pair.
Euclid[p \in Nat \X Nat] ==
  IF p[2] = 0 THEN p[1] ELSE Euclid[<<p[2], p[1] % p[2]>>]

GCD(a, b) == Euclid[<<a, b>>]

\* JavaScript numbers are IEEE-754 doubles: every arithmetic result is
\* rounded to 53 significant bits, ties to even.  A double is held here as
\* [top, l1, l2, l3, e], the value
\*   (top + l1 / 2^18 + l2 / 2^36 + l3 / 2^52) * 2^(-e),
\* with l1, l2 < 2^18 and l3 < 2^16, so that no intermediate value leaves
\* the 32-bit integers.
\* Carries of a digit vector whose digits outgrew their radix.
Carry4(top, x1, x2, x3, e) ==
  LET y2 == x2 + (x3 \div 65536)
      y1 == x1 + (y2 \div 262144)
  IN [top |-> top + (y1 \div 262144), l1 |-> y1 % 262144,
      l2 |-> y2 % 262144, l3 |-> x3 % 65536, e |-> e]

\* Scale n / dn by a power of two into [1, 2): <<n', dn', e>> with
\* n' / dn' = (n / dn) * 2^e.
RECURSIVE Normalize(_, _, _)
Normalize(n, dn, e) ==
  IF n < dn THEN Normalize(2 * n, dn, e + 1)
  ELSE IF n >= 2 * dn THEN Normalize(n, 2 * dn, e - 1)
  ELSE <<n, dn, e>>

\* a / b for integers a > 0, b > 0: the quotient rounded to a double.
FloatDiv(a, b) ==
  LET g  == GCD(a, b)
      nm == Normalize(a \div g, b \div g, 0)
      dn == nm[2]
      r0 == nm[1] - dn
      l1 == (r0 * 262144) \div dn
      r1 == (r0 * 262144) % dn
      l2 == (r1 * 262144) \div dn
      r2 == (r1 * 262144) % dn
      l3 == (r2 * 65536) \div dn
      r3 == (r2 * 65536) % dn
      guard  == (2 * r3) \div dn
      sticky == (2 * r3) % dn # 0
      up == IF guard = 1 /\ (sticky \/ l3 % 2 = 1) THEN 1 ELSE 0
  IN Carry4(1, l1, l2, l3 + up, nm[3])

\* x * 100 for a double x in [2^(-e), 2^(1-e)]: the exact product has 59 or
\* 60 bits, of which the lowest 6 or 7 are rounded away.
FloatTimes100(x) ==
  LET p == Carry4(100 * x.top, 100 * x.l1, 100 * x.l2, 100 * x.l3, x.e)
      unit == IF p.top < 128 THEN 64 ELSE 128
      kept == p.l3 \div unit
      rest == p.l3 % unit
      up == IF 2 * rest > unit \/ (2 * rest = unit /\ kept % 2 = 1)
              THEN 1 ELSE 0
  IN Carry4(p.top, p.l1, p.l2, (kept + up) * unit, p.e)

\* Math.round(x) of a double x >= 1/2^13: floor(x) plus the bit worth one
\* half, so that a fraction of exactly one half rounds up.
FloatMathRound(x) ==
  IF x.e >= 1
    THEN (x.top \div 2^(x.e)) + ((x.top \div 2^(x.e - 1)) % 2)
    ELSE LET k == 0 - x.e
         IN x.top * 2^k + (x.l1 \div 2^(18 - k)) + ((x.l1 \div 2^(17 - k)) % 2)

\* Math.round((downloadedBytes / totalBytes) * 100), for totalBytes > 0.
Percentage(d, tb) ==
  IF d = 0 THEN 0 ELSE FloatMathRound(FloatTimes100(FloatDiv(d, tb)))

\* A formatted number: <<"num", scaled integer>>, or <<"Infinity", 0>>,
\* <<"NaN", 0>> for the non-finite results of a division by zero.
\* (bytes / seconds * 8) / (1024 * 1024), then toFixed(2), in hundredths;
\* seconds = ms / 1000, so the value is bytes * 3125 / (4096 * ms) hundredths.
\* The quotient is taken exactly: the double the code computes lies within
\* 2^-50 of it, which changes the two decimals only at an exact tie, and
\* the byte counts and times of this model produce none.
MbpsFixed2(bytes, ms) ==
  IF ms = 0
    THEN IF bytes = 0 THEN <<"NaN", 0>> ELSE <<"Infinity", 0>>
    ELSE LET g == GCD(bytes, 4096 * ms)
             h == GCD(3125, (4096 * ms) \div g)
         IN <<"num", MathRound((bytes \div g) * (3125 \div h),
                               ((4096 * ms) \div g) \div h)>>

\* (ms / 1000).toFixed(1), in tenths of a second.
SecondsFixed1(ms) == <<"num", MathRound(ms, 100)>>

\* ----------------------------------------------------------------- state
\* Session ids clients choose, and the progress requests the server can hold.
SessionIds == {"a", "b"}
Channels   == {"c1", "c2"}

\* A response of GET /api/progress/:sessionId that has not been requested.
NoChannel == [state |-> "unused", sessionId |-> Undefined, written |-> << >>]

\* new Map()
EmptyMap == [k \in {} |-> Undefined]

NoDownload == [state |-> "none", url |-> Undefined, agent |-> 0,
               total |-> 0, loaded |-> 0]

Init ==
  /\ testFiles = TEST_FILES
  /\ hops = [x \in Sessions |-> 0]
  /\ sessionId = [x \in Sessions |-> Undefined]
  /\ connections = EmptyMap
  /\ channels = [c \in Channels |-> NoChannel]
  /\ now = 0
  /\ pc = [s \in Sessions |-> "idle"]
  /\ fileSize = [s \in Sessions |-> Undefined]
  /\ closeListener = [s \in Sessions |-> FALSE]
  /\ reqClosed = [s \in Sessions |-> FALSE]
  /\ testFile = [s \in Sessions |-> Inherited]
  /\ startTime = [s \in Sessions |-> 0]
  /\ downloadedBytes = [s \in Sessions |-> 0]
  /\ totalBytes = [s \in Sessions |-> 0]
  /\ download = [s \in Sessions |-> NoDownload]
  /\ listeners = [s \in Sessions |-> {}]
  /\ agentCount = 0
  /\ unhandled = [s \in Sessions |-> FALSE]
  /\ trace = [s \in Sessions |-> << >>]

\* ---------------------------------------------------------------- events
NOTE == "Using fresh connection (no connection pooling) for accurate speed measurement"

StartedEvent_description(tf) ==
  [type |-> "started", fileSize |-> tf.description, url |-> tf.url,
   note |-> NOTE]

StartedEvent(tf) ==
  [type |-> "started", fileSize |-> tf.size, url |-> tf.url, note |-> NOTE]

\* `progressEvent.total || progressEvent.loaded`; total is 0 (in JavaScript:
\* undefined) when the response declared no content length.
TotalOrLoaded(total, loaded) == IF total # 0 THEN total ELSE loaded

\* The object built in onDownloadProgress from downloadedBytes, totalBytes,
\* startTime and the current time.
ProgressEvent(d, tb, start, t) ==
  [type |-> "progress",
   percentage |-> Percentage(d, tb),
   downloadedBytes |-> d,
   totalBytes |-> tb,
   speed |-> MbpsFixed2(d, t - start),
   elapsedTime |-> SecondsFixed1(t - start)]

\* The object built in the 'end' listener.
CompletedEvent(tb, tf, start, t) ==
  [type |-> "completed",
   totalTime |-> SecondsFixed1(t - start),
   averageSpeed |-> MbpsFixed2(tb, t - start),
   totalBytes |-> tb,
   fileSize |-> tf.size,
   percentage |-> 100,
   downloadedBytes |-> tb,
   speed |-> MbpsFixed2(tb, t - start),
   elapsedTime |-> SecondsFixed1(t - start)]

ErrorEvent(message) == [type |-> "error", error |-> message]

\* Error codes a failed request or a broken stream carries.
ErrorCodes == {"ECONNRESET", "ETIMEDOUT", "ENOTFOUND", "ECONNABORTED",
               "ERR_BAD_RESPONSE"}

\* error.message of the transport error with the given code.
RawMessage(code) == <<"raw", code>>

\* The message chosen in the catch block.
CatchMessage(code) ==
  IF code = "ECONNRESET"
    THEN <<"categorized", "Connection was reset by the server. Please try again.">>
  ELSE IF code = "ETIMEDOUT"
    THEN <<"categorized", "Request timed out. Please try again with a smaller file.">>
  ELSE IF code = "ENOTFOUND"
    THEN <<"categorized", "Server not found. Please check your internet connection.">>
  ELSE RawMessage(code)

\* ------------------------------------------------- calls on res and axios
Call(op) == [op |-> op]

\* A write that replaces a progress frame still at the end of the channel.
sendProgress_coalesce(tr, data) ==
  IF /\ tr # << >>
     /\ tr[Len(tr)].op = "write"
     /\ tr[Len(tr)].data.type = data.type
    THEN [tr EXCEPT ![Len(tr)] = [op |-> "write", data |-> data]]
    ELSE Append(tr, [op |-> "write", data |-> data])

\* sendProgress(res, data): one res.write of one frame.
sendProgress(tr, data) == Append(tr, [op |-> "write", data |-> data])

\* The frames written to the channel of session s, in order.
IsWrite(c) == c.op = "write"
Frames(s) == SelectSeq(trace[s], IsWrite)

\* The response object as the calls made on it leave it.
Called(s, op) == \E i \in DOMAIN trace[s] : trace[s][i].op = op
StatusCode(s) ==
  IF Called(s, "status400") THEN 400
  ELSE IF Called(s, "writeHead200") THEN 200 ELSE 0

\* --------------------------------------------------------------- actions
\* Declared content lengths of a response; 0 stands for none declared.
ContentLengths == {0} \cup {k * ChunkUnit : k \in 1..MaxDeclared}

\* Sizes of the chunks a response stream delivers.
ChunkSizes == {k * ChunkUnit : k \in 1..MaxChunk}

\* GET /api/speedtest with an invalid fileSize: res.status(400).json(...).
Reject400(s, fs) ==
  /\ pc[s] = "idle"
  /\ InvalidFileSize(fs)
  /\ fileSize' = [fileSize EXCEPT ![s] = fs]
  /\ trace' = [trace EXCEPT ![s] = @ \o <<Call("status400"), Call("json")>>]
  /\ pc' = [pc EXCEPT ![s] = "rejected"]
  /\ UNCHANGED <<testFiles, hops, sessionId, connections, channels>>
  /\ UNCHANGED <<now, closeListener, reqClosed, testFile, startTime,
                 downloadedBytes, totalBytes, download, listeners,
                 agentCount, unhandled>>

\* What the handler does between the validation and the await: commit the
\* event-stream response, register the close listener, send `started`,
\* create the agent and call axios.
StartCalls_noStarted(tf, agent) ==
  << Call("writeHead200"), Call("onClose"),
     [op |-> "agent", id |-> agent],
     [op |-> "request", url |-> tf.url, agent |-> agent] >>

StartCalls_requestFirst(tf, agent) ==
  << [op |-> "agent", id |-> agent],
     [op |-> "request", url |-> tf.url, agent |-> agent],
     Call("writeHead200"), Call("onClose"),
     [op |-> "write", data |-> StartedEvent(tf)] >>

StartCalls(tf, agent) ==
  << Call("writeHead200"), Call("onClose"),
     [op |-> "write", data |-> StartedEvent(tf)],
     [op |-> "agent", id |-> agent],
     [op |-> "request", url |-> tf.url, agent |-> agent] >>

\* The module-level agent every request would share.
createFreshHttpsAgent_shared(count) == 1

\* createFreshHttpsAgent(): `new https.Agent(...)`, an object that did not
\* exist before; count is the number of agents created so far.  The agent
\* keeps no socket alive (keepAlive false, maxFreeSockets 0), so a
\* connection outlives neither its request nor its agent.
createFreshHttpsAgent(count) == count + 1

\* startTime, downloadedBytes and totalBytes are declared with const/let in
\* the body of the handler: every invocation has its own.
Scope_module(s) == 1

Scope(s) == s

\* GET /api/speedtest with an accepted fileSize, up to `await axios(...)`.
Start(s, fs) ==
  /\ pc[s] = "idle"
  /\ ~InvalidFileSize(fs)
  /\ LET tf == Lookup(fs)
         agent == createFreshHttpsAgent(agentCount)
     IN /\ testFile' = [testFile EXCEPT ![s] = tf]
        /\ agentCount' = agentCount + 1
        /\ trace' = [trace EXCEPT ![s] = @ \o StartCalls(tf, agent)]
        /\ download' = [download EXCEPT ![s] =
                          [state |-> "pending", url |-> tf.url,
                           agent |-> agent, total |-> 0, loaded |-> 0]]
  /\ fileSize' = [fileSize EXCEPT ![s] = fs]
  /\ closeListener' = [closeListener EXCEPT ![s] = TRUE]
  /\ startTime' = [startTime EXCEPT ![Scope(s)] = now]
  /\ downloadedBytes' = [downloadedBytes EXCEPT ![Scope(s)] = 0]
  /\ totalBytes' = [totalBytes EXCEPT ![Scope(s)] = 0]
  /\ pc' = [pc EXCEPT ![s] = "awaiting"]
  /\ UNCHANGED <<testFiles, hops, sessionId, connections, channels>>
  /\ UNCHANGED <<now, reqClosed, listeners, unhandled>>

\* The awaited request resolves: the response headers arrived with a 2xx
\* status and the declared length `total`; the handler registers its
\* 'data', 'end' and 'error' listeners on response.data.
StreamListeners_noError == {"data", "end"}

StreamListeners_noEnd == {"data", "error"}

StreamListeners == {"data", "end", "error"}

Resolve(s, total) ==
  /\ pc[s] = "awaiting"
  /\ download[s].state = "pending"
  /\ download' = [download EXCEPT ![s].state = "flowing", ![s].total = total]
  /\ listeners' = [listeners EXCEPT ![s] = StreamListeners]
  /\ pc' = [pc EXCEPT ![s] = "streaming"]
  /\ UNCHANGED <<testFiles, hops, sessionId, connections, channels>>
  /\ UNCHANGED <<now, fileSize, closeListener, reqClosed, testFile, startTime,
                 downloadedBytes, totalBytes, agentCount, unhandled, trace>>

\* The catch block: one error frame, then res.end().
CatchCalls_retry(code) ==
  << [op |-> "request", url |-> "retry", agent |-> 0],
     [op |-> "write", data |-> ErrorEvent(CatchMessage(code))], Call("end") >>

CatchCalls(code) ==
  << [op |-> "write", data |-> ErrorEvent(CatchMessage(code))], Call("end") >>

\* The awaited request rejects with an error carrying `code`.
Catch(s, code) ==
  /\ pc[s] = "awaiting"
  /\ download[s].state = "pending"
  /\ download' = [download EXCEPT ![s].state = "failed"]
  /\ trace' = [trace EXCEPT ![s] = @ \o CatchCalls(code)]
  /\ pc' = [pc EXCEPT ![s] = "done"]
  /\ UNCHANGED <<testFiles, hops, sessionId, connections, channels>>
  /\ UNCHANGED <<now, fileSize, closeListener, reqClosed, testFile, startTime,
                 downloadedBytes, totalBytes, listeners, agentCount,
                 unhandled>>

LoadedBytes_chunk(loaded, chunk) == chunk

\* downloadedBytes = progressEvent.loaded
LoadedBytes(loaded, chunk) == loaded

\* The progress callback, run for a chunk of n bytes: progressEvent.loaded
\* is the cumulative count, progressEvent.total the declared length.
onDownloadProgress(s, n) ==
  /\ pc[s] = "streaming"
  /\ download[s].state = "flowing"
  /\ LET loaded == download[s].loaded + n
         d  == LoadedBytes(loaded, n)
         tb == TotalOrLoaded(download[s].total, loaded)
     IN /\ download' = [download EXCEPT ![s].loaded = loaded]
        /\ downloadedBytes' = [downloadedBytes EXCEPT ![Scope(s)] = d]
        /\ totalBytes' = [totalBytes EXCEPT ![Scope(s)] = tb]
        /\ trace' = [trace EXCEPT ![s] =
                       sendProgress(@, ProgressEvent(d, tb, startTime[Scope(s)],
                                                     now))]
  /\ UNCHANGED <<testFiles, hops, sessionId, connections, channels>>
  /\ UNCHANGED <<now, pc, fileSize, closeListener, reqClosed, testFile, startTime,
                 listeners, agentCount, unhandled>>

\* The response stream delivers a chunk of n bytes, which runs the progress
\* callback.
Chunk(s, n) ==
  /\ download[s].loaded + n <= MaxLoaded * ChunkUnit
  /\ onDownloadProgress(s, n)

\* The 'end' listener: one completed frame, then res.end().
EndCalls_extraProgress(tb, tf, start, t) ==
  << [op |-> "write", data |-> CompletedEvent(tb, tf, start, t)],
     [op |-> "write",
      data |-> [type |-> "progress", percentage |-> 100,
                downloadedBytes |-> tb, totalBytes |-> tb,
                speed |-> MbpsFixed2(tb, t - start),
                elapsedTime |-> SecondsFixed1(t - start)]],
     Call("end") >>

EndCalls_noEnd(tb, tf, start, t) ==
  << [op |-> "write", data |-> CompletedEvent(tb, tf, start, t)] >>

EndCalls(tb, tf, start, t) ==
  << [op |-> "write", data |-> CompletedEvent(tb, tf, start, t)], Call("end") >>

\* An 'end' listener that also assigns `downloadedBytes = totalBytes`.
StreamEnd_assigns(s) ==
  /\ download[s].state = "flowing"
  /\ download' = [download EXCEPT ![s].state = "ended"]
  /\ "end" \in listeners[s]
  /\ trace' = [trace EXCEPT ![s] =
                 @ \o EndCalls(totalBytes[Scope(s)], testFile[s],
                               startTime[Scope(s)], now)]
  /\ pc' = [pc EXCEPT ![s] = "done"]
  /\ downloadedBytes' = [downloadedBytes EXCEPT ![s] = totalBytes[s]]
  /\ UNCHANGED <<testFiles, hops, sessionId, connections, channels>>
  /\ UNCHANGED <<now, fileSize, closeListener, reqClosed, testFile, startTime,
                 totalBytes, listeners, agentCount, unhandled>>

\* The response stream emits 'end'.
StreamEnd(s) ==
  /\ download[s].state = "flowing"
  /\ download' = [download EXCEPT ![s].state = "ended"]
  /\ IF "end" \in listeners[s]
       THEN /\ trace' = [trace EXCEPT ![s] =
                           @ \o EndCalls(totalBytes[Scope(s)], testFile[s],
                                         startTime[Scope(s)], now)]
            /\ pc' = [pc EXCEPT ![s] = "done"]
       ELSE UNCHANGED <<trace, pc>>
  /\ UNCHANGED <<testFiles, hops, sessionId, connections, channels>>
  /\ UNCHANGED <<now, fileSize, closeListener, reqClosed, testFile, startTime,
                 downloadedBytes, totalBytes, listeners, agentCount,
                 unhandled>>

\* The 'error' listener: one error frame with error.message, then res.end().
ErrorCalls_noEnd(code) ==
  << [op |-> "write", data |-> ErrorEvent(RawMessage(code))] >>

ErrorCalls(code) ==
  << [op |-> "write", data |-> ErrorEvent(RawMessage(code))], Call("end") >>

\* The response stream emits 'error'; without a listener the event is an
\* uncaught exception.
StreamError(s, code) ==
  /\ download[s].state = "flowing"
  /\ download' = [download EXCEPT ![s].state = "errored"]
  /\ IF "error" \in listeners[s]
       THEN /\ trace' = [trace EXCEPT ![s] = @ \o ErrorCalls(code)]
            /\ pc' = [pc EXCEPT ![s] = "done"]
            /\ UNCHANGED unhandled
       ELSE /\ unhandled' = [unhandled EXCEPT ![s] = TRUE]
            /\ UNCHANGED <<trace, pc>>
  /\ UNCHANGED <<testFiles, hops, sessionId, connections, channels>>
  /\ UNCHANGED <<now, fileSize, closeListener, reqClosed, testFile, startTime,
                 downloadedBytes, totalBytes, listeners, agentCount>>

\* The request's 'close' event (the client went away): the listener logs
\* 'Client disconnected' and nothing else.
CloseCalls_cancelFrame ==
  << Call("close"),
     [op |-> "write", data |-> ErrorEvent(<<"categorized", "Cancelled">>)],
     Call("end") >>

CloseCalls == << Call("close") >>

ClientClose(s) ==
  /\ closeListener[s]
  /\ ~reqClosed[s]
  /\ reqClosed' = [reqClosed EXCEPT ![s] = TRUE]
  /\ trace' = [trace EXCEPT ![s] = @ \o CloseCalls]
  /\ UNCHANGED <<testFiles, hops, sessionId, connections, channels>>
  /\ UNCHANGED <<now, pc, fileSize, closeListener, testFile, startTime,
                 downloadedBytes, totalBytes, download, listeners,
                 agentCount, unhandled>>

\* Time passes.
Tick ==
  /\ now < MaxTime * TickMs
  /\ now' = now + TickMs
  /\ UNCHANGED <<testFiles, hops, sessionId, connections, channels>>
  /\ UNCHANGED <<pc, fileSize, closeListener, reqClosed, testFile, startTime,
                 downloadedBytes, totalBytes, download, listeners,
                 agentCount, unhandled, trace>>

Next ==
  \/ \E s \in Solo, fs \in Selectors : Reject400(s, fs)
  \/ \E s \in Solo, fs \in Selectors : Start(s, fs)
  \/ \E s \in Solo, total \in ContentLengths : Resolve(s, total)
  \/ \E s \in Solo, code \in ErrorCodes : Catch(s, code)
  \/ \E s \in Solo, n \in ChunkSizes : Chunk(s, n)
  \/ \E s \in Solo : StreamEnd(s)
  \/ \E s \in Solo, code \in ErrorCodes : StreamError(s, code)
  \/ \E s \in Solo : ClientClose(s)
  \/ Tick

Spec == Init /\ [][Next]_vars

\* The download eventually answers, and a flowing stream eventually ends
\* or breaks; the event loop runs every callback that is due.
Settle ==
  \E s \in Solo : \/ \E total \in ContentLengths : Resolve(s, total)
                   \/ \E code \in ErrorCodes : Catch(s, code)
Finish ==
  \E s \in Solo : \/ StreamEnd(s)
                   \/ \E code \in ErrorCodes : StreamError(s, code)

SpecLive == Spec /\ WF_vars(Settle) /\ WF_vars(Finish)

\* ------------------------------------------------------------ time limits
\* The agent is created with `timeout: 60000`, the request is made with
\* `timeout: 300000`.  The handler runs no timer of its own: the transport
\* enforces the limits, and an expiry reaches the handler as the rejection
\* of the awaited request or as the 'error' event of the response stream.
AgentTimeout   == 60000
RequestTimeout == 300000

TimeLimits == {AgentTimeout, RequestTimeout}

\* error.code of a timeout.
TimeoutCodes == {"ETIMEDOUT", "ECONNABORTED"}

\* The limit the download of session s is under: the shorter one until the
\* response arrives, the limit of the request while the body streams.
TimeLimit(s) ==
  IF download[s].state = "pending" THEN AgentTimeout ELSE RequestTimeout

Expired(s) ==
  /\ download[s].state \in {"pending", "flowing"}
  /\ now - startTime[s] >= TimeLimit(s)

\* A download is in flight and d milliseconds pass without a callback.
Elapse(d) ==
  /\ now < MaxTime * TickMs
  /\ \E s \in Solo : download[s].state \in {"pending", "flowing"}
  /\ now' = now + d
  /\ UNCHANGED <<testFiles, hops, sessionId, connections, channels>>
  /\ UNCHANGED <<pc, fileSize, closeListener, reqClosed, testFile, startTime,
                 downloadedBytes, totalBytes, download, listeners,
                 agentCount, unhandled, trace>>

\* The transport gives the download up at its time limit.
Timeout(s, code) ==
  /\ Expired(s)
  /\ \/ Catch(s, code)
     \/ StreamError(s, code)

NextTimeout ==
  \/ \E s \in Solo, fs \in Selectors : Reject400(s, fs)
  \/ \E s \in Solo, fs \in Selectors : Start(s, fs)
  \/ \E s \in Solo, total \in ContentLengths : Resolve(s, total)
  \/ \E s \in Solo, code \in ErrorCodes \ TimeoutCodes : Catch(s, code)
  \/ \E s \in Solo, n \in ChunkSizes : Chunk(s, n)
  \/ \E s \in Solo : StreamEnd(s)
  \/ \E s \in Solo, code \in ErrorCodes \ TimeoutCodes : StreamError(s, code)
  \/ \E s \in Solo : ClientClose(s)
  \/ Tick
  \/ \E d \in TimeLimits : Elapse(d)
  \/ \E s \in Solo, code \in TimeoutCodes : Timeout(s, code)

SpecTimeout == Init /\ [][NextTimeout]_vars

\* ---------------------------------------------------- concurrent sessions
\* All sessions run at once, each with the inputs below.
MultiLoaded == 1       \* most data one download delivers, in units
MultiTime   == 1       \* clock ticks

MultiSelectors == {"small", "large", "huge"}
MultiLengths   == {0, ChunkUnit}
MultiCodes     == {"ECONNRESET"}

NextMulti ==
  \/ \E s \in Sessions, fs \in MultiSelectors : Reject400(s, fs)
  \/ \E s \in Sessions, fs \in MultiSelectors : Start(s, fs)
  \/ \E s \in Sessions, total \in MultiLengths : Resolve(s, total)
  \/ \E s \in Sessions, code \in MultiCodes : Catch(s, code)
  \/ \E s \in Sessions :
        /\ download[s].loaded + ChunkUnit <= MultiLoaded * ChunkUnit
        /\ onDownloadProgress(s, ChunkUnit)
  \/ \E s \in Sessions : StreamEnd(s)
  \/ \E s \in Sessions, code \in MultiCodes : StreamError(s, code)
  \/ \E s \in Sessions : ClientClose(s)
  \/ (now < MultiTime * TickMs /\ Tick)

SpecMulti == Init /\ [][NextMulti]_vars

\* ------------------------------------------- the percentage computation
\* A session whose download is streaming a response of a declared length,
\* before its first chunk; then one progress callback with d bytes loaded.
MaxPctLength == 200
TenMB == 10 * 1024 * 1024

\* -------------------------------------------------------------- redirects
\* The request is made with `maxRedirects: 15`.  The transport follows a
\* 3xx answer by requesting the new location, and rejects the request once
\* it would have to follow more redirects than allowed.
maxRedirects == 15

\* Longest chain of 3xx answers the upstream servers give.
MaxChain == 17

\* error.code of the rejection for too long a chain.
TooManyRedirects == "ERR_FR_TOO_MANY_REDIRECTS"

FollowsRedirect_always(count) == TRUE

\* Whether a further redirect is followed after `count` of them.
FollowsRedirect(count) == count < maxRedirects

\* The upstream answers the pending request with a redirect.
Redirect(s) ==
  /\ pc[s] = "awaiting"
  /\ download[s].state = "pending"
  /\ hops[s] < MaxChain
  /\ IF FollowsRedirect(hops[s])
       THEN /\ hops' = [hops EXCEPT ![s] = @ + 1]
            /\ UNCHANGED <<now, pc, fileSize, closeListener, reqClosed,
                           testFile, startTime, downloadedBytes, totalBytes,
                           download, listeners, agentCount, unhandled, trace,
                           testFiles, sessionId, connections, channels>>
       ELSE Catch(s, TooManyRedirects)

NextRedirect ==
  \/ \E s \in Solo, fs \in MultiSelectors : Reject400(s, fs)
  \/ \E s \in Solo, fs \in MultiSelectors : Start(s, fs)
  \/ \E s \in Solo : Redirect(s)
  \/ \E s \in Solo, total \in MultiLengths : Resolve(s, total)
  \/ \E s \in Solo, code \in MultiCodes : Catch(s, code)
  \/ \E s \in Solo :
        /\ download[s].loaded + ChunkUnit <= MultiLoaded * ChunkUnit
        /\ onDownloadProgress(s, ChunkUnit)
  \/ \E s \in Solo : StreamEnd(s)
  \/ \E s \in Solo, code \in MultiCodes : StreamError(s, code)
  \/ \E s \in Solo : ClientClose(s)
  \/ (now < MultiTime * TickMs /\ Tick)

SpecRedirect == Init /\ [][NextRedirect]_vars

\* ------------------------------------------------ session-keyed handlers
\* The first server of server.js: POST /api/speedtest runs the download and
\* writes its events to the response that GET /api/progress/:sessionId
\* registered under the same session id.  A POST invocation is a member of
\* Sessions; its `res` calls are in trace, its events on a channel.
MapSet(map, key, value) ==
  [k \in (DOMAIN map) \cup {key} |-> IF k = key THEN value ELSE map[k]]

MapDelete_keeps(map, key) == map

MapDelete(map, key) == [k \in (DOMAIN map) \ {key} |-> map[k]]

KeyedStartedEvent(tf) ==
  [type |-> "started", fileSize |-> tf.size, url |-> tf.url]

KeyedCompletedEvent(tb, tf, start, t) ==
  [type |-> "completed",
   totalTime |-> SecondsFixed1(t - start),
   averageSpeed |-> MbpsFixed2(tb, t - start),
   totalBytes |-> tb,
   fileSize |-> tf.size]

\* A sendProgress that writes to every open channel.
sendProgressKeyed_broadcast(chs, conns, sid, run, data) ==
  [c \in DOMAIN chs |->
     IF chs[c].state = "open"
       THEN [chs[c] EXCEPT !.written = Append(@, [run |-> run, data |-> data])]
       ELSE chs[c]]

\* sendProgress(sessionId, data): written to the response registered under
\* the id, dropped when there is none.  `run` records the POST invocation
\* that made the call; it is not part of what is written.
sendProgressKeyed(chs, conns, sid, run, data) ==
  IF sid \in DOMAIN conns
    THEN [chs EXCEPT ![conns[sid]].written =
                        Append(@, [run |-> run, data |-> data])]
    ELSE chs

\* A progress handler that registers the channel without writing the
\* connected message.
Progress_unannounced(c, sid) ==
  /\ channels[c].state = "unused"
  /\ connections' = MapSet(connections, sid, c)
  /\ channels' = [channels EXCEPT ![c] =
                     [state |-> "open", sessionId |-> sid, written |-> << >>]]
  /\ UNCHANGED <<now, pc, fileSize, closeListener, reqClosed, testFile,
                 startTime, downloadedBytes, totalBytes, download, listeners,
                 agentCount, unhandled, trace, testFiles, hops, sessionId>>

\* GET /api/progress/:sessionId
Progress(c, sid) ==
  /\ channels[c].state = "unused"
  /\ connections' = MapSet(connections, sid, c)
  /\ channels' = [channels EXCEPT ![c] =
                     [state |-> "open", sessionId |-> sid,
                      written |-> << [run |-> Undefined,
                                      data |-> [type |-> "connected",
                                                sessionId |-> sid]] >>]]
  /\ UNCHANGED <<now, pc, fileSize, closeListener, reqClosed, testFile,
                 startTime, downloadedBytes, totalBytes, download, listeners,
                 agentCount, unhandled, trace, testFiles, hops, sessionId>>

\* The 'close' event of a progress request: connections.delete(sessionId).
ProgressClose(c) ==
  /\ channels[c].state = "open"
  /\ connections' = MapDelete(connections, channels[c].sessionId)
  /\ channels' = [channels EXCEPT ![c].state = "closed"]
  /\ UNCHANGED <<now, pc, fileSize, closeListener, reqClosed, testFile,
                 startTime, downloadedBytes, totalBytes, download, listeners,
                 agentCount, unhandled, trace, testFiles, hops, sessionId>>

\* POST /api/speedtest with an invalid fileSize or without a sessionId.
SpeedtestReject(r, fs, sid) ==
  /\ pc[r] = "idle"
  /\ InvalidFileSize(fs) \/ Falsy(sid)
  /\ fileSize' = [fileSize EXCEPT ![r] = fs]
  /\ sessionId' = [sessionId EXCEPT ![r] = sid]
  /\ trace' = [trace EXCEPT ![r] = @ \o <<Call("status400"), Call("json")>>]
  /\ pc' = [pc EXCEPT ![r] = "rejected"]
  /\ UNCHANGED <<now, closeListener, reqClosed, testFile, startTime,
                 downloadedBytes, totalBytes, download, listeners,
                 agentCount, unhandled, testFiles, hops, connections, channels>>

\* POST /api/speedtest up to `await axios(...)`; the request goes through
\* the module-level httpsAgent.
SpeedtestStart(r, fs, sid) ==
  /\ pc[r] = "idle"
  /\ ~InvalidFileSize(fs)
  /\ ~Falsy(sid)
  /\ LET tf == Lookup(fs)
     IN /\ testFile' = [testFile EXCEPT ![r] = tf]
        /\ channels' = sendProgressKeyed(channels, connections, sid, r,
                                         KeyedStartedEvent(tf))
        /\ trace' = [trace EXCEPT ![r] =
                       Append(@, [op |-> "request", url |-> tf.url,
                                  agent |-> "httpsAgent"])]
        /\ download' = [download EXCEPT ![r] =
                          [state |-> "pending", url |-> tf.url,
                           agent |-> "httpsAgent", total |-> 0, loaded |-> 0]]
  /\ fileSize' = [fileSize EXCEPT ![r] = fs]
  /\ sessionId' = [sessionId EXCEPT ![r] = sid]
  /\ startTime' = [startTime EXCEPT ![r] = now]
  /\ downloadedBytes' = [downloadedBytes EXCEPT ![r] = 0]
  /\ totalBytes' = [totalBytes EXCEPT ![r] = 0]
  /\ pc' = [pc EXCEPT ![r] = "awaiting"]
  /\ UNCHANGED <<now, closeListener, reqClosed, listeners, agentCount,
                 unhandled, testFiles, hops, connections>>

\* The awaited request resolves: the listeners are registered and the POST
\* is answered with 'Speed test started'.
SpeedtestResolve(r, total) ==
  /\ pc[r] = "awaiting"
  /\ ~Falsy(sessionId[r])
  /\ download[r].state = "pending"
  /\ download' = [download EXCEPT ![r].state = "flowing", ![r].total = total]
  /\ listeners' = [listeners EXCEPT ![r] = StreamListeners]
  /\ trace' = [trace EXCEPT ![r] = Append(@, Call("json"))]
  /\ pc' = [pc EXCEPT ![r] = "streaming"]
  /\ UNCHANGED <<now, fileSize, closeListener, reqClosed, testFile, startTime,
                 downloadedBytes, totalBytes, agentCount, unhandled,
                 testFiles, hops, sessionId, connections, channels>>

\* The catch block: an error event, then res.status(500).json(...).
SpeedtestCatch(r, code) ==
  /\ pc[r] = "awaiting"
  /\ ~Falsy(sessionId[r])
  /\ download[r].state = "pending"
  /\ download' = [download EXCEPT ![r].state = "failed"]
  /\ channels' = sendProgressKeyed(channels, connections, sessionId[r], r,
                                   ErrorEvent(CatchMessage(code)))
  /\ trace' = [trace EXCEPT ![r] = @ \o <<Call("status500"), Call("json")>>]
  /\ pc' = [pc EXCEPT ![r] = "done"]
  /\ UNCHANGED <<now, fileSize, closeListener, reqClosed, testFile, startTime,
                 downloadedBytes, totalBytes, listeners, agentCount,
                 unhandled, testFiles, hops, sessionId, connections>>

\* onDownloadProgress for a chunk of n bytes.
SpeedtestProgress(r, n) ==
  /\ pc[r] = "streaming"
  /\ ~Falsy(sessionId[r])
  /\ download[r].state = "flowing"
  /\ LET loaded == download[r].loaded + n
         tb == TotalOrLoaded(download[r].total, loaded)
     IN /\ download' = [download EXCEPT ![r].loaded = loaded]
        /\ downloadedBytes' = [downloadedBytes EXCEPT ![r] = loaded]
        /\ totalBytes' = [totalBytes EXCEPT ![r] = tb]
        /\ channels' = sendProgressKeyed(channels, connections, sessionId[r], r,
                                         ProgressEvent(loaded, tb,
                                                       startTime[r], now))
  /\ UNCHANGED <<now, pc, fileSize, closeListener, reqClosed, testFile,
                 startTime, listeners, agentCount, unhandled, trace,
                 testFiles, hops, sessionId, connections>>

\* The 'end' listener: a completed event; the channel stays open and
\* registered.
SpeedtestEnd(r) ==
  /\ pc[r] = "streaming"
  /\ ~Falsy(sessionId[r])
  /\ download[r].state = "flowing"
  /\ download' = [download EXCEPT ![r].state = "ended"]
  /\ channels' = sendProgressKeyed(channels, connections, sessionId[r], r,
                                   KeyedCompletedEvent(totalBytes[r], testFile[r],
                                                       startTime[r], now))
  /\ pc' = [pc EXCEPT ![r] = "done"]
  /\ UNCHANGED <<now, fileSize, closeListener, reqClosed, testFile, startTime,
                 downloadedBytes, totalBytes, listeners, agentCount,
                 unhandled, trace, testFiles, hops, sessionId, connections>>

\* An 'error' listener that also answers the POST with status 500.
SpeedtestError_responds(r, code) ==
  /\ pc[r] = "streaming"
  /\ ~Falsy(sessionId[r])
  /\ download[r].state = "flowing"
  /\ download' = [download EXCEPT ![r].state = "errored"]
  /\ channels' = sendProgressKeyed(channels, connections, sessionId[r], r,
                                   ErrorEvent(RawMessage(code)))
  /\ trace' = [trace EXCEPT ![r] = @ \o <<Call("status500"), Call("json")>>]
  /\ pc' = [pc EXCEPT ![r] = "done"]
  /\ UNCHANGED <<now, fileSize, closeListener, reqClosed, testFile, startTime,
                 downloadedBytes, totalBytes, listeners, agentCount,
                 unhandled, testFiles, hops, sessionId, connections>>

\* The 'error' listener: an error event with error.message.
SpeedtestError(r, code) ==
  /\ pc[r] = "streaming"
  /\ ~Falsy(sessionId[r])
  /\ download[r].state = "flowing"
  /\ download' = [download EXCEPT ![r].state = "errored"]
  /\ channels' = sendProgressKeyed(channels, connections, sessionId[r], r,
                                   ErrorEvent(RawMessage(code)))
  /\ pc' = [pc EXCEPT ![r] = "done"]
  /\ UNCHANGED <<now, fileSize, closeListener, reqClosed, testFile, startTime,
                 downloadedBytes, totalBytes, listeners, agentCount,
                 unhandled, trace, testFiles, hops, sessionId, connections>>

\* Values of req.body.sessionId the model sends.
PostedIds == SessionIds \cup {Undefined}

KeyedSelectors == {"small", "huge"}
KeyedLengths   == {ChunkUnit}

NextKeyed ==
  \/ \E c \in Channels, sid \in SessionIds : Progress(c, sid)
  \/ \E c \in Channels : ProgressClose(c)
  \/ \E r \in Sessions, fs \in KeyedSelectors, sid \in PostedIds :
        SpeedtestReject(r, fs, sid)
  \/ \E r \in Sessions, fs \in KeyedSelectors, sid \in PostedIds :
        SpeedtestStart(r, fs, sid)
  \/ \E r \in Sessions, total \in KeyedLengths : SpeedtestResolve(r, total)
  \/ \E r \in Sessions, code \in MultiCodes : SpeedtestCatch(r, code)
  \/ \E r \in Sessions :
        /\ download[r].loaded < download[r].total
        /\ SpeedtestProgress(r, ChunkUnit)
  \/ \E r \in Sessions : SpeedtestEnd(r)
  \/ \E r \in Sessions, code \in MultiCodes : SpeedtestError(r, code)

SpecKeyed == Init /\ [][NextKeyed]_vars

\* ---------------------------------------------------- GET /api/test-files
\* The own members of the table, in the order of the literal.
OwnKeys == <<"small", "medium", "large">>

\* JSON.stringify(tbl): the own members of the object, in insertion order,
\* each with its value.
Stringify(tbl) ==
  LET ks == SelectSeq(OwnKeys, LAMBDA k : k \in DOMAIN tbl)
  IN [i \in 1..Len(ks) |-> <<ks[i], tbl[ks[i]]>>]

\* JSON.parse on the client.
Parse(text) ==
  [k \in {text[i][1] : i \in DOMAIN text} |->
     text[CHOOSE i \in DOMAIN text : text[i][1] = k][2]]

TestFilesCalls_urls(tbl) ==
  << [op |-> "json",
      body |-> Stringify([k \in DOMAIN tbl |-> [url |-> tbl[k].url]])] >>

\* res.json(TEST_FILES)
TestFilesCalls(tbl) == << [op |-> "json", body |-> Stringify(tbl)] >>

\* GET /api/test-files
TestFiles(s) ==
  /\ pc[s] = "idle"
  /\ trace' = [trace EXCEPT ![s] = @ \o TestFilesCalls(testFiles)]
  /\ pc' = [pc EXCEPT ![s] = "served"]
  /\ UNCHANGED <<testFiles, hops, sessionId, connections, channels>>
  /\ UNCHANGED <<now, fileSize, closeListener, reqClosed, testFile, startTime,
                 downloadedBytes, totalBytes, download, listeners,
                 agentCount, unhandled>>

\* Speed tests and requests for the table, side by side.
NextFiles ==
  \/ NextMulti
  \/ \E s \in Sessions : TestFiles(s)

SpecFiles == Init /\ [][NextFiles]_vars

PctLengths == (1..MaxPctLength) \cup {TenMB}

\* Byte counts reported for a response of length T: every count up to a
\* short length, every fortieth of a long one.
PctLoaded(T) ==
  IF T <= MaxPctLength THEN 1..T ELSE {k * (T \div 40) : k \in 1..40}

Streaming(s, fs, total, t) ==
  /\ testFiles = TEST_FILES
  /\ hops = [x \in Sessions |-> 0]
  /\ sessionId = [x \in Sessions |-> Undefined]
  /\ connections = EmptyMap
  /\ channels = [c \in Channels |-> NoChannel]
  /\ now = t
  /\ pc = [x \in Sessions |-> IF x = s THEN "streaming" ELSE "idle"]
  /\ fileSize = [x \in Sessions |-> IF x = s THEN fs ELSE Undefined]
  /\ closeListener = [x \in Sessions |-> x = s]
  /\ reqClosed = [x \in Sessions |-> FALSE]
  /\ testFile = [x \in Sessions |-> IF x = s THEN Lookup(fs) ELSE Inherited]
  /\ startTime = [x \in Sessions |-> 0]
  /\ downloadedBytes = [x \in Sessions |-> 0]
  /\ totalBytes = [x \in Sessions |-> 0]
  /\ download = [x \in Sessions |->
                   IF x = s THEN [state |-> "flowing", url |-> Lookup(fs).url,
                                  agent |-> 1, total |-> total, loaded |-> 0]
                            ELSE NoDownload]
  /\ listeners = [x \in Sessions |-> IF x = s THEN StreamListeners ELSE {}]
  /\ agentCount = 1
  /\ unhandled = [x \in Sessions |-> FALSE]
  /\ trace = [x \in Sessions |->
                IF x = s THEN StartCalls(Lookup(fs), 1) ELSE << >>]

InitPct == \E total \in PctLengths : Streaming(1, "small", total, TickMs)

FirstProgress ==
  \E s \in Solo :
     /\ download[s].loaded = 0
     /\ \E d \in PctLoaded(download[s].total) : onDownloadProgress(s, d)

NextPct == FirstProgress

SpecPct == InitPct /\ [][NextPct]_vars

\* ------------------------------------------------------------ properties
Accepted(s) == pc[s] \in {"awaiting", "streaming", "done"}

FrameType(s, i) == Frames(s)[i].data.type

Count(s, type) ==
  Cardinality({i \in DOMAIN Frames(s) : FrameType(s, i) = type})

Terminals(s) ==
  {i \in DOMAIN Frames(s) : FrameType(s, i) \in {"completed", "error"}}

\* A frame of the given type is written and res.end() is the very next call.
ClosedRightAfter(s, type) ==
  \E k \in 1..(Len(trace[s]) - 1) :
     /\ trace[s][k].op = "write"
     /\ trace[s][k].data.type = type
     /\ trace[s][k + 1].op = "end"

LastFrameIs(s, type) ==
  /\ Frames(s) # << >>
  /\ FrameType(s, Len(Frames(s))) = type

\* C1: in every session at most one terminal frame (completed or error) is
\* written, completed and error never both occur, and no frame of any type
\* is written after the terminal one.
C1_OneTerminalLast ==
  \A s \in Sessions :
     /\ Cardinality(Terminals(s)) <= 1
     /\ ~(Count(s, "completed") > 0 /\ Count(s, "error") > 0)
     /\ \A i \in Terminals(s) : i = Len(Frames(s))

C1_Witness ==
  \E s \in Sessions :
     /\ reqClosed[s]
     /\ Count(s, "progress") >= 2
     /\ LastFrameIs(s, "completed")

\* C2: when the client disconnects while the download is in flight, the
\* next call aborts the download, and no frame is written after the
\* disconnect.
C2_DisconnectCancels ==
  \A s \in Sessions :
     \A i \in DOMAIN trace[s] :
        (/\ trace[s][i].op = "close"
         /\ \A j \in 1..(i - 1) : trace[s][j].op # "end")
        => /\ i < Len(trace[s]) => trace[s][i + 1].op = "abort"
           /\ \A j \in (i + 1)..Len(trace[s]) : trace[s][j].op # "write"

\* C3: for a valid selector the first frame written is started, no progress
\* frame precedes it, and started is written exactly once.
C3_StartedFirstOnce ==
  \A s \in Sessions :
     (Accepted(s) /\ fileSize[s] \in DOMAIN TEST_FILES)
     => /\ Count(s, "started") = 1
        /\ \A i \in DOMAIN Frames(s) :
              FrameType(s, i) = "progress"
              => \E j \in 1..(i - 1) : FrameType(s, j) = "started"

C3_Witness ==
  \E s \in Sessions :
     /\ fileSize[s] = "medium"
     /\ Len(Frames(s)) >= 3
     /\ FrameType(s, 2) = "progress"
     /\ FrameType(s, 3) = "progress"

\* C4: a request whose selector is absent or is not small, medium or large
\* is answered with a 4xx status, and no event-stream header, frame, agent
\* or download request is made for it.
C4_InvalidSelectorRejected ==
  \A s \in Sessions :
     (pc[s] # "idle" /\ fileSize[s] \notin DOMAIN TEST_FILES)
     => /\ StatusCode(s) \in 400..499
        /\ \A i \in DOMAIN trace[s] :
              trace[s][i].op \notin {"writeHead200", "write", "agent", "request"}

\* C5: when the download stream ends normally, the last frame written is
\* completed, with percentage 100 and totalBytes equal to downloadedBytes,
\* and res.end() is the call right after it.
C5_CompletedLast ==
  \A s \in Sessions :
     download[s].state = "ended"
     => /\ LastFrameIs(s, "completed")
        /\ LET f == Frames(s)[Len(Frames(s))].data
           IN /\ f.percentage = 100
              /\ f.totalBytes = f.downloadedBytes
        /\ ClosedRightAfter(s, "completed")

C5_Witness ==
  \E s \in Sessions :
     /\ download[s].state = "ended"
     /\ download[s].total # 0
     /\ download[s].loaded # download[s].total
     /\ LastFrameIs(s, "completed")

\* C6: the downloadedBytes values of successive progress frames of one
\* session never decrease.
C6_BytesNonDecreasing ==
  \A s \in Sessions :
     \A i, j \in DOMAIN Frames(s) :
        (i < j /\ FrameType(s, i) = "progress" /\ FrameType(s, j) = "progress")
        => Frames(s)[i].data.downloadedBytes <= Frames(s)[j].data.downloadedBytes

C6_Witness ==
  \E s \in Sessions :
     \E i, j \in DOMAIN Frames(s) :
        /\ i < j
        /\ FrameType(s, i) = "progress"
        /\ FrameType(s, j) = "progress"
        /\ Frames(s)[i].data.downloadedBytes = 2 * ChunkUnit
        /\ Frames(s)[j].data.downloadedBytes = 3 * ChunkUnit

\* C7: when the response stream emits an error after streaming has begun,
\* exactly one error frame is written, res.end() follows it, and the error
\* is never left without a listener.
C7_StreamErrorHandled ==
  \A s \in Sessions :
     /\ ~unhandled[s]
     /\ download[s].state = "errored"
        => /\ Count(s, "error") = 1
           /\ LastFrameIs(s, "error")
           /\ ClosedRightAfter(s, "error")

C7_Witness ==
  \E s \in Sessions :
     /\ download[s].state = "errored"
     /\ Count(s, "progress") >= 1
     /\ LastFrameIs(s, "error")

\* C8: for a valid selector the response is committed with status 200 and
\* the event-stream headers before the download is requested, and a failed
\* download is reported as one error frame followed by res.end(), never as
\* a 4xx/5xx status.
C8_SuccessThenErrorFrame ==
  \A s \in Sessions :
     (Accepted(s) /\ fileSize[s] \in DOMAIN TEST_FILES)
     => /\ StatusCode(s) = 200
        /\ \A i \in DOMAIN trace[s] :
              trace[s][i].op = "request"
              => \E j \in 1..(i - 1) : trace[s][j].op = "writeHead200"
        /\ download[s].state \in {"failed", "errored"}
           => /\ Count(s, "error") = 1
              /\ Count(s, "completed") = 0
              /\ ClosedRightAfter(s, "error")

C8_Witness ==
  \E s \in Sessions :
     /\ fileSize[s] \in DOMAIN TEST_FILES
     /\ download[s].state = "failed"
     /\ StatusCode(s) = 200
     /\ LastFrameIs(s, "error")

\* C9: every accepted session eventually has written exactly one terminal
\* frame and ended its response.
C9_EventuallyTerminal ==
  \A s \in Sessions :
     (pc[s] = "awaiting")
     ~> (Cardinality(Terminals(s)) = 1 /\ Called(s, "end"))

C9_Witness ==
  \E s \in Sessions :
     /\ pc[s] = "done"
     /\ Cardinality(Terminals(s)) = 1
     /\ Called(s, "end")
     /\ Count(s, "progress") >= 1

\* C11: for a declared length T > 0 and a byte count d with 0 <= d <= T a
\* progress frame reports percentage = round(100 * d / T); at 5,242,880 of
\* 10,485,760 bytes it reports 50.
C11_PercentageIsRounded ==
  \A s \in Sessions :
     \A i \in DOMAIN Frames(s) :
        LET f == Frames(s)[i].data
        IN (f.type = "progress" /\ f.downloadedBytes <= f.totalBytes)
           => /\ f.percentage = MathRound(100 * f.downloadedBytes, f.totalBytes)
              /\ (f.downloadedBytes = 5242880 /\ f.totalBytes = TenMB)
                 => f.percentage = 50

\* C12: the averageSpeed of the completed frame is (bytes * 8) /
\* (1,048,576 * elapsedSeconds) to two decimals, bytes being the bytes
\* downloaded and elapsedSeconds the time since the session started.
C12_AverageSpeed ==
  [][\A s \in Sessions :
       (/\ download[s].state = "flowing"
        /\ download'[s].state = "ended"
        /\ now > startTime[s])
       => LET f == trace'[s][Len(trace'[s]) - 1].data
          IN /\ f.type = "completed"
             /\ f.averageSpeed =
                  <<"num", MathRound(download[s].loaded * 3125,
                                     4096 * (now - startTime[s]))>>]_vars

\* C13: a client disconnect after the terminal frame changes nothing in the
\* session, writes nothing to the channel and does nothing to the download.
C13_LateCloseNoOp ==
  [][\A s \in Sessions :
       (pc[s] = "done" /\ ~reqClosed[s] /\ reqClosed'[s])
       => /\ trace'[s] = Append(trace[s], Call("close"))
          /\ Frames(s)' = Frames(s)
          /\ download'[s] = download[s]
          /\ pc'[s] = pc[s]
          /\ downloadedBytes'[s] = downloadedBytes[s]
          /\ totalBytes'[s] = totalBytes[s]
          /\ startTime'[s] = startTime[s]
          /\ listeners'[s] = listeners[s]]_vars

C13_Witness ==
  \E s \in Sessions :
     /\ pc[s] = "done"
     /\ Len(trace[s]) >= 2
     /\ trace[s][Len(trace[s])].op = "close"
     /\ trace[s][Len(trace[s]) - 1].op = "end"
     /\ LastFrameIs(s, "completed")

\* The state that belongs to one session.
SessionState(s) ==
  <<pc[s], fileSize[s], closeListener[s], reqClosed[s], testFile[s],
    startTime[s], downloadedBytes[s], totalBytes[s], download[s],
    listeners[s], unhandled[s], trace[s]>>

\* The frames on the channel of session s are those of session s.
OwnFrames(s) ==
  \A i \in DOMAIN Frames(s) :
     LET f == Frames(s)[i].data
     IN /\ f.type = "started" => f.url = testFile[s].url
        /\ f.type = "progress" =>
              /\ f.downloadedBytes <= download[s].loaded
              /\ f.totalBytes = TotalOrLoaded(download[s].total, f.downloadedBytes)
        /\ f.type = "completed" =>
              /\ f.fileSize = testFile[s].size
              /\ f.totalBytes = totalBytes[s]

\* C14: with sessions running concurrently, every step changes the state of
\* one session at most, the frames on a channel are computed from the
\* state of the session that owns it, and downloadedBytes, totalBytes and
\* startTime of a session are those of its own download.
C14_SessionsIsolated ==
  /\ [](\A s \in Sessions :
          /\ OwnFrames(s)
          /\ pc[s] = "streaming" => downloadedBytes[s] = download[s].loaded)
  /\ [][\E s \in Sessions :
          \A x \in Sessions \ {s} : SessionState(x)' = SessionState(x)]_vars

C14_Witness ==
  /\ pc[1] = "streaming" /\ pc[2] = "streaming"
  /\ fileSize[1] # fileSize[2]
  /\ startTime[1] # startTime[2]
  /\ download[1].total # download[2].total
  /\ Count(1, "progress") = 1 /\ Count(2, "progress") = 1

\* The agents created, and the agents used for a request, by session s.
AgentsCreated(s) ==
  {trace[s][i].id : i \in {j \in DOMAIN trace[s] : trace[s][j].op = "agent"}}
AgentsUsed(s) ==
  {trace[s][i].agent : i \in {j \in DOMAIN trace[s] : trace[s][j].op = "request"}}

\* C15: every session sends its request through an agent it created itself,
\* and no agent is created or used by two sessions, whether they run at the
\* same time or one after the other.
C15_FreshAgent ==
  \A s \in Sessions :
     /\ AgentsUsed(s) \subseteq AgentsCreated(s)
     /\ Accepted(s) => (Cardinality(AgentsUsed(s)) = 1
                         /\ download[s].agent \in AgentsUsed(s))
     /\ \A x \in Sessions \ {s} :
           (AgentsCreated(s) \cup AgentsUsed(s))
             \cap (AgentsCreated(x) \cup AgentsUsed(x)) = {}

C15_Witness ==
  /\ pc[1] = "done"
  /\ download[1].state = "ended"
  /\ pc[2] = "awaiting"
  /\ startTime[2] > startTime[1]
  /\ download[1].agent # download[2].agent

\* The message of the i-th frame of session s, an error frame.
ErrorText(s, i) == Frames(s)[i].data.error

\* C16: every error frame carries a categorized message, never the raw
\* message of the transport error; a session that failed with a connection
\* reset, a timeout or an unresolvable host reports the message of the catch
\* block, before the response as well as after streaming has begun.
C16_ErrorsCategorized ==
  \A s \in Sessions :
     \A i \in DOMAIN Frames(s) :
        FrameType(s, i) = "error"
        => /\ ErrorText(s, i)[1] = "categorized"
           /\ \A code \in {"ECONNRESET", "ETIMEDOUT", "ENOTFOUND"} :
                 ErrorText(s, i) = RawMessage(code)
                 => ErrorText(s, i) = CatchMessage(code)

\* The axios calls of session s.
Requests(s) == {i \in DOMAIN trace[s] : trace[s][i].op = "request"}

\* C17: a session issues at most one download request; once the download
\* has failed, before the response or while streaming, the session has
\* written its error frame and ended the response and still has issued one
\* request only.
C17_NoRetry ==
  \A s \in Sessions :
     /\ Cardinality(Requests(s)) <= 1
     /\ download[s].state \in {"failed", "errored"}
        => /\ Cardinality(Requests(s)) = 1
           /\ pc[s] = "done"
           /\ LastFrameIs(s, "error")
           /\ Called(s, "end")

C17_Witness ==
  \E s \in Sessions :
     /\ download[s].state = "failed"
     /\ now > startTime[s]
     /\ reqClosed[s]
     /\ Cardinality(Requests(s)) = 1
     /\ LastFrameIs(s, "error")

Bodies(s) ==
  {trace[s][i].body : i \in {j \in DOMAIN trace[s] :
                                 pc[s] = "served" /\ trace[s][j].op = "json"}}

\* C19: GET /api/test-files answers with the table as built at start-up,
\* whatever the other requests are doing, and changes nothing but its own
\* response; no step of the server changes the table.
C19_TestFilesReadOnly ==
  /\ [](testFiles = TEST_FILES)
  /\ [](\A s \in Sessions : \A b \in Bodies(s) : Parse(b) = TEST_FILES)
  /\ [][\A s \in Sessions :
         (pc[s] = "idle" /\ pc'[s] = "served")
         => /\ trace'[s] = trace[s] \o TestFilesCalls(TEST_FILES)
            /\ \A x \in Sessions \ {s} : SessionState(x)' = SessionState(x)
            /\ UNCHANGED <<testFiles, now, agentCount, fileSize, closeListener,
                           reqClosed, testFile, startTime, downloadedBytes,
                           totalBytes, download, listeners, unhandled>>]_vars

C19_Witness ==
  /\ pc[1] = "served"
  /\ Bodies(1) # {}
  /\ pc[2] = "streaming"
  /\ Count(2, "progress") >= 1

\* The POST invocations whose events are on channel c.
RunsOn(c) ==
  {channels[c].written[i].run :
     i \in {j \in DOMAIN channels[c].written :
              channels[c].written[j].data.type # "connected"}}

\* C20: on every progress channel of the session-keyed server the events
\* come from one POST /api/speedtest invocation at most.
C20_OneRunPerChannel ==
  \A c \in Channels : Cardinality(RunsOn(c)) <= 1

\* C21: when the download stream has ended, the totalBytes of the completed
\* frame is the number of bytes the stream delivered, with or without a
\* declared length.
C21_TotalIsReceived ==
  \A s \in Sessions :
     (download[s].state = "ended" /\ LastFrameIs(s, "completed"))
     => Frames(s)[Len(Frames(s))].data.totalBytes = download[s].loaded

\* C22: every run of the progress callback appends exactly one progress
\* frame, carrying the byte count of that callback, to the channel of its
\* session and makes no other call; the frames are therefore on the channel
\* in the order of the callbacks, one per callback.
C22_OneFramePerCallback ==
  [][\A s \in Sessions :
       download'[s].loaded # download[s].loaded
       => /\ Len(trace'[s]) = Len(trace[s]) + 1
          /\ SubSeq(trace'[s], 1, Len(trace[s])) = trace[s]
          /\ LET c == trace'[s][Len(trace'[s])]
             IN /\ c.op = "write"
                /\ c.data.type = "progress"
                /\ c.data.downloadedBytes = download'[s].loaded]_vars

C22_Witness ==
  \E s \in Sessions :
     \E i \in 1..(Len(trace[s]) - 1) :
        /\ trace[s][i].op = "write"
        /\ trace[s][i].data.type = "progress"
        /\ trace[s][i].data.downloadedBytes = ChunkUnit
        /\ trace[s][i + 1].op = "write"
        /\ trace[s][i + 1].data.type = "progress"
        /\ trace[s][i + 1].data.downloadedBytes = 3 * ChunkUnit

\* C23: the speed of a progress frame is a finite number, and it is zero
\* when the frame is written with no time elapsed since the session started.
C23_SpeedFinite ==
  \A s \in Sessions :
     \A i \in DOMAIN Frames(s) :
        LET f == Frames(s)[i].data
        IN f.type = "progress"
           => /\ f.speed[1] = "num"
              /\ f.elapsedTime = SecondsFixed1(0) => f.speed = <<"num", 0>>

\* C24: when the response declared no content length, the progress frames
\* of the session have no percentage member (an undefined member is left
\* out of the serialized frame).
C24_NoPercentageWithoutLength ==
  \A s \in Sessions :
     \A i \in DOMAIN Frames(s) :
        (FrameType(s, i) = "progress" /\ download[s].total = 0)
        => "percentage" \notin DOMAIN Frames(s)[i].data

\* C25: for small, medium and large the started frame carries the size
\* label and the url of the table entry of the selector, and the download
\* request goes to that url, after res.writeHead and after the started
\* frame.
C25_StartedMatchesRequest ==
  \A s \in Sessions :
     (Accepted(s) /\ fileSize[s] \in DOMAIN TEST_FILES)
     => \E h, w, r \in DOMAIN trace[s] :
           /\ h < w /\ w < r
           /\ trace[s][h].op = "writeHead200"
           /\ trace[s][w].op = "write"
           /\ trace[s][w].data.type = "started"
           /\ trace[s][w].data.fileSize = TEST_FILES[fileSize[s]].size
           /\ trace[s][w].data.url = TEST_FILES[fileSize[s]].url
           /\ trace[s][r].op = "request"
           /\ trace[s][r].url = TEST_FILES[fileSize[s]].url
           /\ \A j \in 1..(r - 1) : trace[s][j].op # "request"

C25_Witness ==
  \E s \in Sessions :
     /\ fileSize[s] = "large"
     /\ pc[s] = "awaiting"
     /\ trace[s][Len(trace[s])].op = "request"
     /\ trace[s][Len(trace[s])].url = TEST_FILES["large"].url

\* C26: only a run of the progress callback changes downloadedBytes or
\* totalBytes of a session; the end of the stream, its error, the failure
\* of the request and the client's disconnect leave both as they are.
C26_CountersOnlyByCallback ==
  [][\A s \in Sessions :
       /\ (downloadedBytes'[s] # downloadedBytes[s] \/ totalBytes'[s] # totalBytes[s])
          => (/\ pc[s] = "streaming"
              /\ pc'[s] = "streaming"
              /\ download'[s].loaded # download[s].loaded)
       /\ (\/ download'[s].state \in {"ended", "errored", "failed"}
           \/ reqClosed'[s] # reqClosed[s])
          => (/\ downloadedBytes'[s] = downloadedBytes[s]
              /\ totalBytes'[s] = totalBytes[s])]_vars

C26_Witness ==
  \E s \in Sessions :
     /\ download[s].state = "ended"
     /\ reqClosed[s]
     /\ downloadedBytes[s] = 2 * ChunkUnit
     /\ totalBytes[s] = ChunkUnit

\* The session failed because the chain of redirects was too long.
RedirectsExceeded(s) ==
  /\ LastFrameIs(s, "error")
  /\ ErrorText(s, Len(Frames(s))) = RawMessage(TooManyRedirects)

\* C27: the transport never follows more than 15 redirects for a session,
\* a response reached over up to 15 redirects is streamed, and a session
\* whose chain was longer has followed exactly 15, has received nothing and
\* has written exactly one error frame followed by res.end().
C27_RedirectsBounded ==
  \A s \in Sessions :
     /\ hops[s] <= 15
     /\ RedirectsExceeded(s)
        => /\ hops[s] = 15
           /\ download[s].state = "failed"
           /\ Count(s, "error") = 1
           /\ Count(s, "progress") = 0
           /\ Count(s, "completed") = 0
           /\ ClosedRightAfter(s, "error")
     /\ (download[s].state = "failed" /\ hops[s] < 15) => ~RedirectsExceeded(s)

C27_Witness ==
  \E s \in Sessions :
     /\ RedirectsExceeded(s)
     /\ hops[s] = maxRedirects
     /\ pc[s] = "done"

\* A step of the POST invocation r.
RunStep(r) == pc'[r] # pc[r] \/ download'[r] # download[r]

\* C28: what is written to a channel is either its own connected event,
\* when it opens, or one event of a run whose sessionId is registered to
\* that channel at that moment; a step of a run whose sessionId has no
\* registered channel changes no channel, and a channel that opens later
\* starts with the connected event alone.
C28_OnlyRegisteredChannel ==
  /\ [][\A c \in Channels :
          channels'[c].written # channels[c].written
          => \/ /\ channels[c].state = "unused"
                /\ Len(channels'[c].written) = 1
                /\ channels'[c].written[1].data.type = "connected"
             \/ \E r \in Sessions :
                   /\ RunStep(r)
                   /\ sessionId'[r] \in DOMAIN connections
                   /\ connections[sessionId'[r]] = c
                   /\ Len(channels'[c].written) = Len(channels[c].written) + 1
                   /\ SubSeq(channels'[c].written, 1, Len(channels[c].written))
                        = channels[c].written
                   /\ channels'[c].written[Len(channels'[c].written)].run = r]_vars
  /\ [][\A r \in Sessions :
          (RunStep(r) /\ sessionId'[r] \notin DOMAIN connections)
          => channels' = channels]_vars
  /\ [][Cardinality({c \in Channels : channels'[c] # channels[c]}) <= 1]_vars

\* A run under an id with no channel has ended, and a channel opened under
\* that id afterwards holds its connected event only.
C28_Witness ==
  \E r \in Sessions, c \in Channels :
     /\ pc[r] = "done"
     /\ download[r].state = "ended"
     /\ channels[c].state = "open"
     /\ channels[c].sessionId = sessionId[r]
     /\ Len(channels[c].written) = 1
     /\ \A x \in Channels \ {c} : channels[x].state = "unused"

\* C29: every entry of connections refers to a channel that is open and
\* was opened under the key of the entry, and nothing is written to a
\* channel once it has closed.
C29_RegistryHoldsOpenChannels ==
  /\ [](\A sid \in DOMAIN connections :
          /\ channels[connections[sid]].state = "open"
          /\ channels[connections[sid]].sessionId = sid)
  /\ [][\A c \in Channels :
          channels[c].state = "closed"
          => channels'[c].written = channels[c].written]_vars

\* A channel closed, another was opened under the same id afterwards and
\* carries events of a run, while that run is still streaming.
C29_Witness ==
  \E c, x \in Channels, r \in Sessions :
     /\ channels[c].state = "closed"
     /\ channels[x].state = "open"
     /\ channels[x].sessionId = channels[c].sessionId
     /\ channels[x].sessionId \in DOMAIN connections
     /\ connections[channels[x].sessionId] = x
     /\ pc[r] = "streaming"
     /\ r \in RunsOn(x)
     /\ r \in RunsOn(c)

\* C30: a channel registered under an id stays registered under it for as
\* long as it is open and no other channel is opened under the id; the
\* close of an older channel of the same id does not remove it.
C30_NewerStaysRegistered ==
  [][\A sid \in DOMAIN connections :
       LET x == connections[sid]
       IN (/\ channels'[x].state = "open"
           /\ \A c \in Channels \ {x} :
                 ~(channels[c].state = "unused" /\ channels'[c].state = "open"))
          => /\ sid \in DOMAIN connections'
             /\ connections'[sid] = x]_vars

\* The HTTP responses given to the POST invocation r.
Responses(r) == {i \in DOMAIN trace[r] : trace[r][i].op = "json"}

\* The error events of run r on channel c.
ErrorsOn(c, r) ==
  {i \in DOMAIN channels[c].written :
      /\ channels[c].written[i].data.type = "error"
      /\ channels[c].written[i].run = r}

HasTerminal(c) ==
  \E i \in DOMAIN channels[c].written :
     channels[c].written[i].data.type \in {"completed", "error"}

\* C32: a channel that is registered under its sessionId and has carried a
\* completed or error event stays registered under that id for as long as
\* its client has not disconnected and no other channel is opened under the
\* id, so that a later POST with the id writes its started event to it.
C32_RegisteredAfterTerminal ==
  [][\A sid \in DOMAIN connections :
       LET x == connections[sid]
       IN (/\ HasTerminal(x)
           /\ channels'[x].state = "open"
           /\ \A c \in Channels \ {x} :
                 ~(channels[c].state = "unused" /\ channels'[c].state = "open"))
          => /\ sid \in DOMAIN connections'
             /\ connections'[sid] = x]_vars

\* C33: the first frame of every progress channel is the connected message
\* with the sessionId of the channel, it is the only connected message of
\* the channel, and every event of a speed test is written after it, also
\* when the speed test was running before the channel was opened.
C33_ConnectedFirst ==
  /\ [](\A c \in Channels :
          /\ channels[c].state = "unused" => channels[c].written = << >>
          /\ channels[c].state # "unused"
             => /\ Len(channels[c].written) >= 1
                /\ channels[c].written[1].data
                     = [type |-> "connected", sessionId |-> channels[c].sessionId]
                /\ \A i \in 2..Len(channels[c].written) :
                      channels[c].written[i].data.type
                        \in {"started", "progress", "completed", "error"})
  /\ [][\A c \in Channels :
          channels[c].state # "unused"
          => /\ Len(channels'[c].written) >= Len(channels[c].written)
             /\ SubSeq(channels'[c].written, 1, Len(channels[c].written))
                  = channels[c].written]_vars

\* A channel opened while the speed test of its id was already streaming:
\* the started event was dropped, and the channel carries the connected
\* message followed by a progress event of that run.
C33_Witness ==
  \E c \in Channels, r \in Sessions :
     /\ channels[c].state = "open"
     /\ \A x \in Channels \ {c} : channels[x].state = "unused"
     /\ sessionId[r] = channels[c].sessionId
     /\ Len(channels[c].written) >= 2
     /\ channels[c].written[1].data.type = "connected"
     /\ channels[c].written[2].data.type = "progress"
     /\ channels[c].written[2].run = r

\* C10: the percentage of every progress frame is between 0 and 100.
C10_PercentageInRange ==
  \A s \in Sessions :
     \A i \in DOMAIN Frames(s) :
        FrameType(s, i) = "progress"
        => Frames(s)[i].data.percentage \in 0..100

====
